---- MODULE Spec2Model ----
(***************************************************************************)
(* The COVID ETL notebook (COVID_Data_ETL) as a state machine.             *)
(*                                                                         *)
(* One action per notebook cell, run top to bottom.  The state is the      *)
(* kernel's dataframes, the backup CSV files, the PostgreSQL tables and    *)
(* the position in the notebook.  A dataframe is a record                  *)
(*     [rows |-> sequence of records, dtype |-> column name -> dtype].     *)
(* Numbers are held in units of 1/Denom, so that decimals exist and the    *)
(* integer cast truncates; the missing value of a numeric column is NaN,   *)
(* the missing value of a text column is NaNStr.                           *)
(***************************************************************************)
EXTENDS Integers, Sequences, FiniteSets, TLC

\* --------------------------------------------------------------- bounds
\* Dates are 1..MaxDate.
MaxDate == 2
\* Rows of the first vaccination extract.
MaxRows == 2
\* Rows of the case/death extract.
MaxCaseRows == 3
\* Times the whole notebook is run against the same database.
MaxRuns == 2
\* Numbers are multiples of 1/Denom.
Denom == 2

\* --------------------------------------------------------------- values
NaN == -1
NaNStr == "NaN"

\* Columns that hold text; every other column holds numbers (dates are numbers).
TextCols == {"Entity", "Code", "state", "state_name", "state_name_x", "state_name_y",
             "created_at", "consent_cases", "consent_deaths"}

NullOf(c) == IF c \in TextCols THEN NaNStr ELSE NaN

IsNull(v, c) == v = NullOf(c)

\* float + float, NaN-propagating (pandas Series.__add__)
Add(a, b) == IF a = NaN \/ b = NaN THEN NaN ELSE a + b

IsIntegral(v) == v # NaN /\ v % Denom = 0

\* --------------------------------------------------------------- frames
Columns(df) == DOMAIN df.dtype

Undefined == [rows |-> <<>>, dtype |-> <<>>]

RECURSIVE Flatten(_)
Flatten(ss) == IF ss = <<>> THEN <<>> ELSE Head(ss) \o Flatten(Tail(ss))

Range(s) == {s[i] : i \in DOMAIN s}

Restrict(r, cols) == [c \in cols |-> r[c]]

\* pandas.read_csv type inference for one numeric column
InferDtype(rows, c) ==
    IF rows = <<>> THEN "object"
    ELSE IF \A i \in DOMAIN rows : IsIntegral(rows[i][c]) THEN "int64"
    ELSE "float64"

\* DataFrame.drop(columns=cols)
DropColumns(df, cols) ==
    [rows  |-> [i \in DOMAIN df.rows |-> Restrict(df.rows[i], Columns(df) \ cols)],
     dtype |-> Restrict(df.dtype, Columns(df) \ cols)]

\* DataFrame.rename(columns=m)
NewName(m, c) == IF c \in DOMAIN m THEN m[c] ELSE c
OldName(m, cols, n) == CHOOSE c \in cols : NewName(m, c) = n
Rename(df, m) ==
    LET new == {NewName(m, c) : c \in Columns(df)}
    IN  [rows  |-> [i \in DOMAIN df.rows |->
                       [n \in new |-> df.rows[i][OldName(m, Columns(df), n)]]],
         dtype |-> [n \in new |-> df.dtype[OldName(m, Columns(df), n)]]]

\* df.loc[mask, :].copy() followed or not by reset_index(drop=True): the
\* kept rows (those for which the mask holds), in their order
Loc(df, kept) == [rows |-> kept, dtype |-> df.dtype]

\* a missing value makes an integer column a float column
Upcast(dt) == IF dt = "int64" THEN "float64" ELSE dt

Matches(l, R, on) == SelectSeq(R.rows, LAMBDA r : \A c \in on : r[c] = l[c])

\* The left join proper, for frames that share no column but `on`: every left
\* row in order, once per matching right row, or once with nulls
LeftJoin(L, R, on) ==
    LET rcols == Columns(R) \ on
        miss  == [c \in rcols |-> NullOf(c)]
        one(l) == LET ms == Matches(l, R, on)
                  IN  IF ms = <<>> THEN <<l @@ miss>>
                      ELSE [j \in DOMAIN ms |-> l @@ Restrict(ms[j], rcols)]
        nomatch == \E i \in DOMAIN L.rows : Matches(L.rows[i], R, on) = <<>>
    IN  [rows  |-> Flatten([i \in DOMAIN L.rows |-> one(L.rows[i])]),
         dtype |-> L.dtype @@ [c \in rcols |->
                                 IF nomatch THEN Upcast(R.dtype[c]) ELSE R.dtype[c]]]

\* The inner join: the left rows that have no match are dropped
InnerJoin(L, R, on) ==
    LET rcols == Columns(R) \ on
        one(l) == LET ms == Matches(l, R, on)
                  IN  [j \in DOMAIN ms |-> l @@ Restrict(ms[j], rcols)]
    IN  [rows  |-> Flatten([i \in DOMAIN L.rows |-> one(L.rows[i])]),
         dtype |-> L.dtype @@ [c \in rcols |-> R.dtype[c]]]

\* pd.merge(L, R, how="inner", on=on)
MergeInner(L, R, on) ==
    LET ov == (Columns(L) \cap Columns(R)) \ on
    IN  InnerJoin(Rename(L, [c \in ov |-> c \o "_x"]),
                  Rename(R, [c \in ov |-> c \o "_y"]), on)

\* pd.merge(L, R, how="left", on=on): columns the two frames share besides
\* `on` get the suffixes _x (left) and _y (right)
MergeLeft(L, R, on) ==
    LET ov == (Columns(L) \cap Columns(R)) \ on
    IN  LeftJoin(Rename(L, [c \in ov |-> c \o "_x"]),
                 Rename(R, [c \in ov |-> c \o "_y"]), on)

\* ----------------------------------------------------- vaccination flow
M1 == "people_fully_vaccinated"
M2 == "people_fully_vaccinated_per_hundred"
M3 == "daily_vaccinations"
M4 == "daily_vaccinations_per_million"
Metrics == {M1, M2, M3, M4}

Excluded == {"Bureau of Prisons", "Dept of Defense", "Indian Health Svc",
             "Long Term Care", "Veterans Health"}

\* NotFederalAgency with one of the five tests left out
NotFederalAgency_Four(r) ==
    /\ r.Entity # "Bureau of Prisons"
    /\ r.Entity # "Dept of Defense"
    /\ r.Entity # "Indian Health Svc"
    /\ r.Entity # "Veterans Health"

NotFederalAgency(r) ==
    /\ r.Entity # "Bureau of Prisons"
    /\ r.Entity # "Dept of Defense"
    /\ r.Entity # "Indian Health Svc"
    /\ r.Entity # "Long Term Care"
    /\ r.Entity # "Veterans Health"

\* df3.loc[...five inequalities..., :].copy()
ExcludeAgencies(df) == Loc(df, SelectSeq(df.rows, NotFederalAgency))

\* DataFrame.fillna(value=0): every column, the key columns too
FillNa(df) ==
    [rows  |-> [i \in DOMAIN df.rows |->
                  [c \in Columns(df) |->
                     IF IsNull(df.rows[i][c], c)
                     THEN (IF c \in TextCols THEN "0" ELSE 0)
                     ELSE df.rows[i][c]]],
     dtype |-> df.dtype]

\* float -> int truncates (every value that reaches it is >= 0: fillna ran)
Trunc(v) == (v \div Denom) * Denom

\* df[c] = df[c].astype(int)
AsTypeInt(df, c) ==
    [rows  |-> [i \in DOMAIN df.rows |-> [df.rows[i] EXCEPT ![c] = Trunc(@)]],
     dtype |-> [df.dtype EXCEPT ![c] = "int64"]]

\* MergeVaccinations with the first join an inner join
MergeVaccinations_Inner(f1, f2, f3, f4) ==
    LET on  == {"Entity", "Date"}
        df1 == MergeInner(DropColumns(f1, {"Code"}), DropColumns(f2, {"Code"}), on)
        df2 == MergeLeft(df1, DropColumns(f3, {"Code"}), on)
    IN  MergeLeft(df2, DropColumns(f4, {"Code"}), on)

\* cell 3: drop Code from each extract, then three left joins on Entity, Date
MergeVaccinations(f1, f2, f3, f4) ==
    LET on  == {"Entity", "Date"}
        df1 == MergeLeft(DropColumns(f1, {"Code"}), DropColumns(f2, {"Code"}), on)
        df2 == MergeLeft(df1, DropColumns(f3, {"Code"}), on)
    IN  MergeLeft(df2, DropColumns(f4, {"Code"}), on)

\* CleanVaccinations with the second cast forgotten
CleanVaccinations_OneCast(df) == AsTypeInt(FillNa(ExcludeAgencies(df)), M3)

\* cell 4: exclusion filter, fillna(0), the two daily columns back to int
CleanVaccinations(df) ==
    AsTypeInt(AsTypeInt(FillNa(ExcludeAgencies(df)), M3), M4)

\* cell 5, first statement
RenameVaccinations(df) ==
    Rename(df, [Entity |-> "state_name", Date |-> "date_administered"])

IsUnitedStates(r) == r.state_name = "United States"
IsNotUnitedStates(r) == r.state_name # "United States"

\* cell 5: the national rows, without the state_name column
SplitUS(df) == DropColumns(Loc(df, SelectSeq(df.rows, IsUnitedStates)), {"state_name"})

\* SplitState testing for the label of the cell's comment, "US"
SplitState_WrongLabel(df) == Loc(df, SelectSeq(df.rows, LAMBDA r : r.state_name # "US"))

\* cell 5: every other row
SplitState(df) == Loc(df, SelectSeq(df.rows, IsNotUnitedStates))

\* ------------------------------------------------------ case/death flow
DroppedCaseCols == {"conf_cases", "prob_cases", "pnew_case",
                    "conf_death", "prob_death", "pnew_death",
                    "created_at", "consent_cases", "consent_deaths", "state"}

CaseCols == {"submission_date", "state_name", "tot_cases", "new_case",
             "tot_death", "new_death"}

\* JoinXref as an inner join: a row whose code the cross-reference lacks is
\* dropped
JoinXref_Inner(cases, xref) ==
    LET df1 == MergeInner(cases, xref, {"state"})
        d   == DropColumns(df1, DroppedCaseCols)
    IN  [rows  |-> [i \in DOMAIN d.rows |-> Restrict(d.rows[i], CaseCols)],
         dtype |-> Restrict(d.dtype, CaseCols)]

\* cell 8: left join with the cross-reference on state, drop, reorder
JoinXref(cases, xref) ==
    LET df1 == MergeLeft(cases, xref, {"state"})
        d   == DropColumns(df1, DroppedCaseCols)
    IN  [rows  |-> [i \in DOMAIN d.rows |-> Restrict(d.rows[i], CaseCols)],
         dtype |-> Restrict(d.dtype, CaseCols)]

IsNY(r) == r.state_name = "New York"
IsNYC(r) == r.state_name = "New York City"
\* IsOther without its first test
IsOther_KeepsNYC(r) == r.state_name # "New York"
IsOther(r) == r.state_name # "New York City" /\ r.state_name # "New York"

\* MergeNY as an inner join
MergeNY_Inner(ny, nyc) == MergeInner(ny, nyc, {"submission_date"})

\* cell 9: pd.merge(NY_cases_deaths_df, NYC_cases_deaths_df, how="left", ...)
MergeNY(ny, nyc) == MergeLeft(ny, nyc, {"submission_date"})

SumDtype(a, b) == IF a = "int64" /\ b = "int64" THEN "int64" ELSE "float64"

\* SumNY with the deaths total read from the wrong right-hand column
SumNY_WrongColumn(m) ==
    [rows  |-> [i \in DOMAIN m.rows |->
                  [submission_date |-> m.rows[i].submission_date,
                   state_name      |-> "New York",
                   tot_cases |-> Add(m.rows[i].tot_cases_x, m.rows[i].tot_cases_y),
                   new_case  |-> Add(m.rows[i].new_case_x, m.rows[i].new_case_y),
                   tot_death |-> Add(m.rows[i].tot_death_x, m.rows[i].new_death_y),
                   new_death |-> Add(m.rows[i].new_death_x, m.rows[i].new_death_y)]],
     dtype |-> [c \in CaseCols |-> "float64"]]

\* cell 9: the new frame of the pairwise sums, labelled New York
SumNY(m) ==
    [rows  |-> [i \in DOMAIN m.rows |->
                  [submission_date |-> m.rows[i].submission_date,
                   state_name      |-> "New York",
                   tot_cases |-> Add(m.rows[i].tot_cases_x, m.rows[i].tot_cases_y),
                   new_case  |-> Add(m.rows[i].new_case_x, m.rows[i].new_case_y),
                   tot_death |-> Add(m.rows[i].tot_death_x, m.rows[i].tot_death_y),
                   new_death |-> Add(m.rows[i].new_death_x, m.rows[i].new_death_y)]],
     dtype |-> [c \in CaseCols |->
                  IF c = "submission_date" THEN m.dtype[c]
                  ELSE IF c = "state_name" THEN "object"
                  ELSE SumDtype(m.dtype[c \o "_x"], m.dtype[c \o "_y"])]]

ConcatDtype(a, b) ==
    IF a = b THEN a ELSE IF "object" \in {a, b} THEN "object" ELSE "float64"

\* pd.concat([a, b]) of two frames with the same columns
Concat(a, b) ==
    [rows  |-> a.rows \o b.rows,
     dtype |-> [c \in Columns(a) |-> ConcatDtype(a.dtype[c], b.dtype[c])]]

\* cell 9, last rename
RenameCases(df) ==
    Rename(df, [new_case |-> "new_cases", tot_death |-> "tot_deaths",
                new_death |-> "new_deaths"])

\* ------------------------------------------------------------- database
\* CovidDBSchema.sql: PRIMARY KEY(date_administered)
PK_us_vaccinations == {"date_administered"}
\* CovidDBSchema.sql: PRIMARY KEY(date_administered,state_name)
PK_state_vaccinations == {"date_administered", "state_name"}
\* The table state_cases_deaths exists when the notebook runs (cell 11 lists
\* it); its key is the record key of the case/death record.
PK_state_cases_deaths == {"submission_date", "state_name"}

Tables == {"us_vaccinations", "state_vaccinations", "state_cases_deaths"}

\* CovidDBSchema.sql, run as a script: the tables it creates, each with the
\* columns of its PRIMARY KEY clause (an unquoted name such as
\* US_vaccinations is folded to lower case). It has two CREATE TABLE
\* statements and none for state_cases_deaths.
CovidDBSchema ==
    [state_vaccinations |-> PK_state_vaccinations,
     us_vaccinations    |-> PK_us_vaccinations]

SameKey(a, b, pk) == \A c \in pk : a[c] = b[c]

\* The rows of one INSERT, in order, against the table's primary key: a null
\* in a key column or a key already in the table ends the statement.
RECURSIVE InsertRows(_, _, _)
InsertRows(table, rows, pk) ==
    IF rows = <<>> THEN [ok |-> TRUE, rows |-> table, error |-> "none"]
    ELSE LET r == Head(rows)
         IN  IF \E c \in pk : IsNull(r[c], c)
             THEN [ok |-> FALSE, rows |-> table, error |-> "NotNullViolation"]
             ELSE IF \E i \in DOMAIN table : SameKey(table[i], r, pk)
             THEN [ok |-> FALSE, rows |-> table, error |-> "UniqueViolation"]
             ELSE InsertRows(Append(table, r), Tail(rows), pk)

\* ToSql with if_exists='replace': the table is dropped and made anew from df
ToSql_Replace(table, df, pk) == [ok |-> TRUE, rows |-> df.rows, error |-> "none"]

\* ToSql without the transaction: the rows inserted before the failing one
\* stay in the table
ToSql_NoRollback(table, df, pk) == InsertRows(table, df.rows, pk)

\* DataFrame.to_sql(name, con=engine, if_exists='append', index=False): one
\* transaction; a failed insert leaves the table as it was
ToSql(table, df, pk) ==
    LET res == InsertRows(table, df.rows, pk)
    IN  IF res.ok THEN res ELSE [res EXCEPT !.rows = table]

\* DataFrame.head(): the first rows of the result
HeadRows == 5
Head5(rows) == SubSeq(rows, 1, IF Len(rows) < HeadRows THEN Len(rows) ELSE HeadRows)

\* ----------------------------------------------------------- input files
RECURSIVE SortedSeq(_)
SortedSeq(S) ==
    IF S = {} THEN <<>>
    ELSE LET m == CHOOSE x \in S : \A y \in S : x <= y
         IN  <<m>> \o SortedSeq(S \ {m})

UpTo(S, n) == {T \in SUBSET S : Cardinality(T) <= n}

\* The jurisdictions of a set of vaccination extracts, in file order: a
\* state, one of the five federal agencies, the national aggregate.
EntityOrder(agency) == <<"Alabama", agency, "United States">>

\* A key (Entity, Date) of a vaccination extract is numbered in file order.
VaccKeys == 1..(3 * MaxDate)
EntityOf(ents, k) == ents[((k - 1) \div MaxDate) + 1]
DateOf(k) == ((k - 1) % MaxDate) + 1

\* One vaccination extract: the rows of `keys`, the metric `col` from val[k].
VaccFile(ents, keys, col, val) ==
    LET ks   == SortedSeq(keys)
        rows == [i \in DOMAIN ks |->
                   [Entity |-> EntityOf(ents, ks[i]), Code |-> NaNStr,
                    Date |-> DateOf(ks[i])] @@ (col :> val[ks[i]])]
    IN  [rows  |-> rows,
         dtype |-> [Entity |-> "object", Code |-> "float64", Date |-> "object"]
                   @@ (col :> InferDtype(rows, col))]

\* people_fully_vaccinated: a whole number, missing for the state on the
\* first day of collection
Val1 == [k \in VaccKeys |-> IF k = 1 THEN NaN ELSE Denom * k]
\* people_fully_vaccinated_per_hundred: a decimal
Val2 == [k \in VaccKeys |-> Denom + 1]
\* daily_vaccinations: missing on the first day, a decimal after it
Val3 == [k \in VaccKeys |-> IF DateOf(k) = 1 THEN NaN ELSE Denom + 1]
\* daily_vaccinations_per_million: a whole number
Val4 == [k \in VaccKeys |-> 3 * Denom]

\* The four extracts: the first with the keys K, each of the other three
\* with the one key k when it is in `have`, with no row otherwise.
VaccFiles(ents, K, k, have) ==
    [nbr_fully   |-> VaccFile(ents, K, M1, Val1),
     shr_fully   |-> VaccFile(ents, IF M2 \in have THEN {k} ELSE {}, M2, Val2),
     nbr_doses   |-> VaccFile(ents, IF M3 \in have THEN {k} ELSE {}, M3, Val3),
     per_million |-> VaccFile(ents, IF M4 \in have THEN {k} ELSE {}, M4, Val4)]

\* The first key that K lacks, if any
Foreign(K) ==
    LET out == VaccKeys \ K
    IN  IF out = {} THEN {} ELSE {CHOOSE x \in out : \A y \in out : x <= y}

\* The vaccination extracts: the first holds up to MaxRows keys; the other
\* three hold at most one row each, all at one of the first extract's keys or
\* at the first key the first extract lacks.
VaccInputs ==
    { VaccFiles(EntityOrder(c[1]), c[2], c[3], c[4])
      : c \in { t \in Excluded \X UpTo(VaccKeys, MaxRows) \X VaccKeys
                        \X (SUBSET {M2, M3, M4})
                : t[3] \in t[2] \cup Foreign(t[2]) } }

\* The raw state codes of the case/death extract, in file order.
CodeOrder == <<"AL", "NY", "NYC">>
Names == {"Alabama", "New York", "New York City"}

CaseKeys == 1..(Len(CodeOrder) * MaxDate)
CodeOf(k) == CodeOrder[((k - 1) \div MaxDate) + 1]
CaseDateOf(k) == ((k - 1) % MaxDate) + 1

\* The case/death extract: one row per key of `keys`, four whole-number
\* metrics that differ from row to row and from column to column.
CaseFile(keys) ==
    LET ks == SortedSeq(keys)
    IN  [rows |-> [i \in DOMAIN ks |->
                     [submission_date |-> CaseDateOf(ks[i]), state |-> CodeOf(ks[i]),
                      tot_cases |-> Denom * ks[i], conf_cases |-> NaN,
                      prob_cases |-> NaN, new_case |-> Denom * (ks[i] + 20),
                      pnew_case |-> NaN, tot_death |-> Denom * (ks[i] + 40),
                      conf_death |-> NaN, prob_death |-> NaN,
                      new_death |-> Denom * (ks[i] + 60), pnew_death |-> NaN,
                      created_at |-> NaNStr, consent_cases |-> NaNStr,
                      consent_deaths |-> NaNStr]],
         dtype |-> [submission_date |-> "object", state |-> "object",
                    tot_cases |-> "int64", conf_cases |-> "float64",
                    prob_cases |-> "float64", new_case |-> "int64",
                    pnew_case |-> "float64", tot_death |-> "int64",
                    conf_death |-> "float64", prob_death |-> "float64",
                    new_death |-> "int64", pnew_death |-> "float64",
                    created_at |-> "object", consent_cases |-> "object",
                    consent_deaths |-> "object"]]

\* The cross-reference: a row for each code that `name` maps.
XrefFile(name) ==
    LET ks == SelectSeq(CodeOrder, LAMBDA c : name[c] # NaNStr)
    IN  [rows  |-> [i \in DOMAIN ks |-> [state |-> ks[i], state_name |-> name[ks[i]]]],
         dtype |-> [state |-> "object", state_name |-> "object"]]

\* The case/death inputs: up to MaxCaseRows keys, and a cross-reference that
\* maps each code to a name or to none (two codes may share a name).
CaseInputs ==
    { [cases_deaths |-> CaseFile(K), xref |-> XrefFile(name)]
      : K \in UpTo(CaseKeys, MaxCaseRows),
        name \in [Range(CodeOrder) -> Names \cup {NaNStr}] }

\* Files like those of the repository's own run: a national and a state row
\* with all four metrics, one cross-reference name per code, both New York
\* jurisdictions reporting.
StdEntities == EntityOrder("Long Term Care")
NationalKey == 2 * MaxDate + 1
StdVacc ==
    [nbr_fully   |-> VaccFile(StdEntities, {1, NationalKey}, M1, Val1),
     shr_fully   |-> VaccFile(StdEntities, {1, NationalKey}, M2, Val2),
     nbr_doses   |-> VaccFile(StdEntities, {1, NationalKey}, M3, Val3),
     per_million |-> VaccFile(StdEntities, {1, NationalKey}, M4, Val4)]

OneToOne == [AL |-> "Alabama", NY |-> "New York", NYC |-> "New York City"]

StdCases ==
    [cases_deaths |-> CaseFile({1, MaxDate + 1, 2 * MaxDate + 1}),
     xref |-> XrefFile(OneToOne)]

\* The four extracts, the first row of the first extract occurring twice
RepeatFirst(f) == [f EXCEPT !.nbr_fully.rows = <<@[1]>> \o @]

\* The vaccination extracts of the load: the national row, the state row,
\* both or neither; and the same with the state row occurring twice.
LoadVacc ==
    { VaccFiles(StdEntities, K, NationalKey, {M2, M3, M4})
      : K \in SUBSET {1, NationalKey} }
    \cup
    { RepeatFirst(VaccFiles(StdEntities, K, NationalKey, {M2, M3, M4}))
      : K \in {{1}, {1, NationalKey}} }

\* The inputs of the load: the vaccination extracts of LoadVacc; any
\* case/death extract; a cross-reference that is one-to-one, or has no row
\* at all, or names two codes New York.
LoadInputs ==
    { v @@ [cases_deaths |-> CaseFile(C), xref |-> XrefFile(name)]
      : v \in LoadVacc,
        C \in UpTo(CaseKeys, MaxCaseRows),
        name \in { OneToOne,
                   [c \in Range(CodeOrder) |-> NaNStr],
                   [OneToOne EXCEPT !["AL"] = "New York"] } }

\* ---------------------------------------------------------------- state
VARIABLES
    files,                      \* the six input CSV files (never written) and
                                \* which of them cannot be read
    pc,                         \* the next cell to run, "done" or "error"
    run,                        \* which run of the notebook this is
    nbr_fully_vaccinated_df, shr_fully_vaccinated_df,
    nbr_doses_administered_df, nbr_doses_per_million_df,
    df3, vaccinations_df, US_vaccinations_df, state_vaccinations_df,
    raw_cases_deaths_df, state_xref_df,
    NY_cases_deaths_df, NYC_cases_deaths_df, other_states_df,
    merged_df, merged_ny_df, state_cases_deaths,
    csv,                        \* the three backup CSV files
    db,                         \* the rows of the three database tables
    db_before,                  \* the rows the tables held when this run began
    appended,                   \* the tables this run has appended to
    reads,                      \* the read-backs of this run: <<table, kind>>
    shown,                      \* the rows each sample read-back returned
    counted,                    \* the number the count read-back returned
    error                       \* the exception that ended this run

vaccFrames == <<nbr_fully_vaccinated_df, shr_fully_vaccinated_df,
                nbr_doses_administered_df, nbr_doses_per_million_df,
                df3, vaccinations_df, US_vaccinations_df, state_vaccinations_df>>

caseFrames == <<raw_cases_deaths_df, state_xref_df,
                NY_cases_deaths_df, NYC_cases_deaths_df, other_states_df,
                merged_df, merged_ny_df, state_cases_deaths>>

loadVars == <<db, db_before, appended, reads, shown, counted, error>>

vars == <<files, pc, run, vaccFrames, caseFrames, csv, loadVars>>

NoRows == [t \in Tables |-> <<>>]

\* A fresh kernel, the files in place, the database as it is.
Fresh(f, tables, backups, n) ==
    /\ files = f
    /\ pc = "read_vaccinations"
    /\ run = n
    /\ nbr_fully_vaccinated_df = Undefined
    /\ shr_fully_vaccinated_df = Undefined
    /\ nbr_doses_administered_df = Undefined
    /\ nbr_doses_per_million_df = Undefined
    /\ df3 = Undefined
    /\ vaccinations_df = Undefined
    /\ US_vaccinations_df = Undefined
    /\ state_vaccinations_df = Undefined
    /\ raw_cases_deaths_df = Undefined
    /\ state_xref_df = Undefined
    /\ NY_cases_deaths_df = Undefined
    /\ NYC_cases_deaths_df = Undefined
    /\ other_states_df = Undefined
    /\ merged_df = Undefined
    /\ merged_ny_df = Undefined
    /\ state_cases_deaths = Undefined
    /\ csv = backups
    /\ db = tables
    /\ db_before = tables
    /\ appended = {}
    /\ reads = {}
    /\ shown = NoRows
    /\ counted = 0
    /\ error = "none"

\* The six files, in the order the notebook reads them
FileNames == <<"nbr_fully", "shr_fully", "nbr_doses", "per_million",
               "cases_deaths", "xref">>

\* Every file is in place and parses.
AllReadable == [unreadable |-> {}]

\* The tables are provisioned empty before the first run.
Init == \E f \in LoadInputs : Fresh(f @@ AllReadable, NoRows, NoRows, 1)

InitVacc ==
    \E v \in VaccInputs : Fresh(v @@ StdCases @@ AllReadable, NoRows, NoRows, 1)

InitCases ==
    \E c \in CaseInputs : Fresh(StdVacc @@ c @@ AllReadable, NoRows, NoRows, 1)

\* The standard files, any of them missing or malformed
InitFiles ==
    \E u \in SUBSET Range(FileNames) :
        Fresh(StdVacc @@ StdCases @@ [unreadable |-> u], NoRows, NoRows, 1)

\* pd.read_csv calls in the order of `names`: the number of them that
\* return before one raises (FileNotFoundError, ParserError, ...)
ReadsDone(names) ==
    IF \E i \in DOMAIN names : names[i] \in files.unreadable
    THEN (CHOOSE i \in DOMAIN names :
             /\ names[i] \in files.unreadable
             /\ \A j \in 1..(i - 1) : names[j] \notin files.unreadable) - 1
    ELSE Len(names)

\* -------------------------------------------------------------- actions
\* cell 2: four read_csv calls in a row; the first that raises ends the cell
\* and the run, the frames read before it staying bound
ReadVaccinations ==
    /\ pc = "read_vaccinations"
    /\ LET n == ReadsDone(SubSeq(FileNames, 1, 4))
       IN  /\ nbr_fully_vaccinated_df' =
                 IF n >= 1 THEN files.nbr_fully ELSE nbr_fully_vaccinated_df
           /\ shr_fully_vaccinated_df' =
                 IF n >= 2 THEN files.shr_fully ELSE shr_fully_vaccinated_df
           /\ nbr_doses_administered_df' =
                 IF n >= 3 THEN files.nbr_doses ELSE nbr_doses_administered_df
           /\ nbr_doses_per_million_df' =
                 IF n >= 4 THEN files.per_million ELSE nbr_doses_per_million_df
           /\ pc' = IF n = 4 THEN "merge_vaccinations" ELSE "error"
           /\ error' = IF n = 4 THEN error ELSE "ReadError"
    /\ UNCHANGED <<files, run, df3, vaccinations_df, US_vaccinations_df,
                   state_vaccinations_df, caseFrames, csv, db, db_before,
                   appended, reads, shown, counted>>

\* cell 3
MergeVaccinationsCell ==
    /\ pc = "merge_vaccinations"
    /\ nbr_fully_vaccinated_df' = DropColumns(nbr_fully_vaccinated_df, {"Code"})
    /\ shr_fully_vaccinated_df' = DropColumns(shr_fully_vaccinated_df, {"Code"})
    /\ nbr_doses_administered_df' = DropColumns(nbr_doses_administered_df, {"Code"})
    /\ nbr_doses_per_million_df' = DropColumns(nbr_doses_per_million_df, {"Code"})
    /\ df3' = MergeVaccinations(nbr_fully_vaccinated_df, shr_fully_vaccinated_df,
                                nbr_doses_administered_df, nbr_doses_per_million_df)
    /\ pc' = "clean_vaccinations"
    /\ UNCHANGED <<files, run, vaccinations_df, US_vaccinations_df,
                   state_vaccinations_df, caseFrames, csv, loadVars>>

\* cell 4
CleanVaccinationsCell ==
    /\ pc = "clean_vaccinations"
    /\ vaccinations_df' = CleanVaccinations(df3)
    /\ pc' = "split_vaccinations"
    /\ UNCHANGED <<files, run, nbr_fully_vaccinated_df, shr_fully_vaccinated_df,
                   nbr_doses_administered_df, nbr_doses_per_million_df, df3,
                   US_vaccinations_df, state_vaccinations_df, caseFrames, csv,
                   loadVars>>

\* cell 5
SplitVaccinationsCell ==
    /\ pc = "split_vaccinations"
    /\ vaccinations_df' = RenameVaccinations(vaccinations_df)
    /\ US_vaccinations_df' = SplitUS(RenameVaccinations(vaccinations_df))
    /\ state_vaccinations_df' = SplitState(RenameVaccinations(vaccinations_df))
    /\ pc' = "backup_vaccinations"
    /\ UNCHANGED <<files, run, nbr_fully_vaccinated_df, shr_fully_vaccinated_df,
                   nbr_doses_administered_df, nbr_doses_per_million_df, df3,
                   caseFrames, csv, loadVars>>

\* cell 6
BackupVaccinations ==
    /\ pc = "backup_vaccinations"
    /\ csv' = [csv EXCEPT !["us_vaccinations"] = US_vaccinations_df.rows,
                          !["state_vaccinations"] = state_vaccinations_df.rows]
    /\ pc' = "read_cases"
    /\ UNCHANGED <<files, run, vaccFrames, caseFrames, loadVars>>

\* ReadCases with the cross-reference optional: a cross-reference that
\* cannot be read counts as one with no row
ReadCases_XrefOptional ==
    /\ pc = "read_cases"
    /\ LET ok == "cases_deaths" \notin files.unreadable
       IN  /\ raw_cases_deaths_df' =
                 IF ok THEN files.cases_deaths ELSE raw_cases_deaths_df
           /\ state_xref_df' =
                 IF ~ ok THEN state_xref_df
                 ELSE IF "xref" \in files.unreadable
                 THEN [files.xref EXCEPT !.rows = <<>>]
                 ELSE files.xref
           /\ pc' = IF ok THEN "join_xref" ELSE "error"
           /\ error' = IF ok THEN error ELSE "ReadError"
    /\ UNCHANGED <<files, run, vaccFrames, NY_cases_deaths_df, NYC_cases_deaths_df,
                   other_states_df, merged_df, merged_ny_df, state_cases_deaths,
                   csv, db, db_before, appended, reads, shown, counted>>

\* cell 7: two read_csv calls in a row
ReadCases ==
    /\ pc = "read_cases"
    /\ LET n == ReadsDone(SubSeq(FileNames, 5, 6))
       IN  /\ raw_cases_deaths_df' =
                 IF n >= 1 THEN files.cases_deaths ELSE raw_cases_deaths_df
           /\ state_xref_df' = IF n >= 2 THEN files.xref ELSE state_xref_df
           /\ pc' = IF n = 2 THEN "join_xref" ELSE "error"
           /\ error' = IF n = 2 THEN error ELSE "ReadError"
    /\ UNCHANGED <<files, run, vaccFrames, NY_cases_deaths_df, NYC_cases_deaths_df,
                   other_states_df, merged_df, merged_ny_df, state_cases_deaths,
                   csv, db, db_before, appended, reads, shown, counted>>

\* cell 8
JoinXrefCell ==
    /\ pc = "join_xref"
    /\ raw_cases_deaths_df' = JoinXref(raw_cases_deaths_df, state_xref_df)
    /\ pc' = "merge_ny"
    /\ UNCHANGED <<files, run, vaccFrames, state_xref_df, NY_cases_deaths_df,
                   NYC_cases_deaths_df, other_states_df, merged_df, merged_ny_df,
                   state_cases_deaths, csv, loadVars>>

\* cell 9
MergeNYCell ==
    /\ pc = "merge_ny"
    /\ NY_cases_deaths_df' = Loc(raw_cases_deaths_df,
                             SelectSeq(raw_cases_deaths_df.rows, IsNY))
    /\ NYC_cases_deaths_df' = Loc(raw_cases_deaths_df,
                             SelectSeq(raw_cases_deaths_df.rows, IsNYC))
    /\ other_states_df' = Loc(raw_cases_deaths_df,
                             SelectSeq(raw_cases_deaths_df.rows, IsOther))
    /\ merged_df' = MergeNY(NY_cases_deaths_df', NYC_cases_deaths_df')
    /\ merged_ny_df' = SumNY(merged_df')
    /\ state_cases_deaths' = RenameCases(Concat(merged_ny_df', other_states_df'))
    /\ csv' = [csv EXCEPT !["state_cases_deaths"] = state_cases_deaths'.rows]
    /\ pc' = "connect"
    /\ UNCHANGED <<files, run, vaccFrames, raw_cases_deaths_df, state_xref_df,
                   loadVars>>

\* cells 10 and 11: create_engine, engine.table_names()
Connect ==
    /\ pc = "connect"
    /\ pc' = "load_us"
    /\ UNCHANGED <<files, run, vaccFrames, caseFrames, csv, loadVars>>

\* A to_sql cell: append df to table t, or end the run on the exception.
Load(t, df, pk, next) ==
    LET res == ToSql(db[t], df, pk)
    IN  /\ db' = [db EXCEPT ![t] = res.rows]
        /\ appended' = IF res.ok THEN appended \cup {t} ELSE appended
        /\ error' = res.error
        /\ pc' = IF res.ok THEN next ELSE "error"
        /\ UNCHANGED <<files, run, vaccFrames, caseFrames, csv, db_before, reads,
                       shown, counted>>

\* A validation cell: select * from t, .head()
ReadBack(t, next) ==
    /\ reads' = reads \cup {<<t, "sample">>}
    /\ shown' = [shown EXCEPT ![t] = Head5(db[t])]
    /\ pc' = next
    /\ UNCHANGED <<files, run, vaccFrames, caseFrames, csv, db, db_before,
                   appended, counted, error>>

\* LoadUS with the frame and table of cell 14: the appends out of order
LoadUS_StateFirst ==
    /\ pc = "load_us"
    /\ Load("state_vaccinations", state_vaccinations_df, PK_state_vaccinations,
            "show_us")

\* cell 12
LoadUS ==
    /\ pc = "load_us"
    /\ Load("us_vaccinations", US_vaccinations_df, PK_us_vaccinations, "show_us")

\* cell 13
ShowUS == pc = "show_us" /\ ReadBack("us_vaccinations", "load_state")

\* cell 14
LoadState ==
    /\ pc = "load_state"
    /\ Load("state_vaccinations", state_vaccinations_df, PK_state_vaccinations,
            "show_state")

\* ShowState with the query of cell 13 left in
ShowState_WrongTable == pc = "show_state" /\ ReadBack("us_vaccinations", "load_cases")

\* cell 15
ShowState == pc = "show_state" /\ ReadBack("state_vaccinations", "load_cases")

\* cell 16
LoadCases ==
    /\ pc = "load_cases"
    /\ Load("state_cases_deaths", state_cases_deaths, PK_state_cases_deaths,
            "show_cases")

\* cell 17
ShowCases == pc = "show_cases" /\ ReadBack("state_cases_deaths", "count_cases")

\* cell 18: select count(*) from state_cases_deaths
CountCases ==
    /\ pc = "count_cases"
    /\ reads' = reads \cup {<<"state_cases_deaths", "count">>}
    /\ counted' = Len(db["state_cases_deaths"])
    /\ pc' = "done"
    /\ UNCHANGED <<files, run, vaccFrames, caseFrames, csv, db, db_before,
                   appended, shown, error>>

\* The operator runs the notebook again, top to bottom, in a fresh kernel,
\* on the same files and against the same database.
Rerun ==
    /\ pc \in {"done", "error"}
    /\ run < MaxRuns
    /\ run' = run + 1
    /\ pc' = "read_vaccinations"
    /\ nbr_fully_vaccinated_df' = Undefined
    /\ shr_fully_vaccinated_df' = Undefined
    /\ nbr_doses_administered_df' = Undefined
    /\ nbr_doses_per_million_df' = Undefined
    /\ df3' = Undefined
    /\ vaccinations_df' = Undefined
    /\ US_vaccinations_df' = Undefined
    /\ state_vaccinations_df' = Undefined
    /\ raw_cases_deaths_df' = Undefined
    /\ state_xref_df' = Undefined
    /\ NY_cases_deaths_df' = Undefined
    /\ NYC_cases_deaths_df' = Undefined
    /\ other_states_df' = Undefined
    /\ merged_df' = Undefined
    /\ merged_ny_df' = Undefined
    /\ state_cases_deaths' = Undefined
    /\ appended' = {}
    /\ reads' = {}
    /\ shown' = NoRows
    /\ counted' = 0
    /\ error' = "none"
    /\ db_before' = db
    /\ UNCHANGED <<files, csv, db>>

\* cells 2 to 6
NextVacc ==
    \/ ReadVaccinations \/ MergeVaccinationsCell \/ CleanVaccinationsCell
    \/ SplitVaccinationsCell \/ BackupVaccinations

\* cells 7 to 9
NextCases == ReadCases \/ JoinXrefCell \/ MergeNYCell

\* cells 10 to 18
NextLoad ==
    \/ Connect
    \/ LoadUS \/ ShowUS \/ LoadState \/ ShowState
    \/ LoadCases \/ ShowCases \/ CountCases

Next == NextVacc \/ NextCases \/ NextLoad \/ Rerun

\* The notebook, run up to MaxRuns times over the inputs of the load.
Spec == Init /\ [][Next]_vars

\* The vaccination flow (cells 2 to 6) over the vaccination inputs.
SpecVacc == InitVacc /\ [][NextVacc]_vars

\* The two flows (cells 2 to 9) over the case/death inputs.
SpecCases == InitCases /\ [][NextVacc \/ NextCases]_vars

\* The notebook, run up to MaxRuns times over the standard files, any of
\* which may be missing or malformed.
SpecFiles == InitFiles /\ [][Next]_vars

\* --------------------------------------------------------------- claims
Cells == <<"read_vaccinations", "merge_vaccinations", "clean_vaccinations",
           "split_vaccinations", "backup_vaccinations", "read_cases", "join_xref",
           "merge_ny", "connect", "load_us", "show_us", "load_state", "show_state",
           "load_cases", "show_cases", "count_cases">>

Pos(c) == CHOOSE i \in DOMAIN Cells : Cells[i] = c

\* This run has run cell c.
Past(c) == pc \in {"done", "error"} \/ Pos(pc) > Pos(c)

\* The rows before the New York merge (the frame cell 8 leaves)
PreMergeNY == SelectSeq(raw_cases_deaths_df.rows, IsNY)
PreMergeNYC == SelectSeq(raw_cases_deaths_df.rows, IsNYC)

DatesOf(rows) == {rows[i].submission_date : i \in DOMAIN rows}

FinalNY == SelectSeq(state_cases_deaths.rows, IsNY)

\* r is the sum, metric by metric, of the New York row a and the New York
\* City row b
IsSumOf(r, a, b) ==
    /\ r.tot_cases = a.tot_cases + b.tot_cases
    /\ r.new_cases = a.new_case + b.new_case
    /\ r.tot_deaths = a.tot_death + b.tot_death
    /\ r.new_deaths = a.new_death + b.new_death

AllNull(r) ==
    /\ r.tot_cases = NaN /\ r.new_cases = NaN
    /\ r.tot_deaths = NaN /\ r.new_deaths = NaN

\* C1 as stated: every New York row of the final state_cases_deaths is, in
\* each of the four metrics, the sum of the pre-merge New York value and the
\* pre-merge New York City value of its submission_date.
C1_SumOfBoth ==
    Past("merge_ny") =>
        \A i \in DOMAIN FinalNY :
            \E a \in Range(PreMergeNY), b \in Range(PreMergeNYC) :
                /\ a.submission_date = FinalNY[i].submission_date
                /\ b.submission_date = FinalNY[i].submission_date
                /\ IsSumOf(FinalNY[i], a, b)

\* C1 amended: every New York row of the final state_cases_deaths is the sum,
\* in each of the four metrics, of a pre-merge New York row and a pre-merge
\* New York City row of its submission_date, or, when New York City has no
\* row of that date, a row of a pre-merge New York date whose four metrics are
\* all null.
C1_SumOrNull ==
    Past("merge_ny") =>
        \A i \in DOMAIN FinalNY :
            LET d == FinalNY[i].submission_date
            IN  IF d \in DatesOf(PreMergeNYC)
                THEN \E a \in Range(PreMergeNY), b \in Range(PreMergeNYC) :
                        /\ a.submission_date = d
                        /\ b.submission_date = d
                        /\ IsSumOf(FinalNY[i], a, b)
                ELSE d \in DatesOf(PreMergeNY) /\ AllNull(FinalNY[i])

\* C1 witness: the merge has run on a New York date that New York City
\* shares and on one that it lacks.
C1_Witness ==
    /\ Past("merge_ny")
    /\ DatesOf(PreMergeNY) \cap DatesOf(PreMergeNYC) # {}
    /\ DatesOf(PreMergeNY) \ DatesOf(PreMergeNYC) # {}

\* C2 as stated: the dates of the combined New York rows are exactly the
\* dates that New York and New York City both have.
C2_DatesAreIntersection ==
    Past("merge_ny") =>
        DatesOf(merged_ny_df.rows) = DatesOf(PreMergeNY) \cap DatesOf(PreMergeNYC)

\* C2 amended: a date that only New York City has produces no combined row,
\* a date that only New York has produces a combined row whose metrics are
\* null; the dates of the combined New York rows are exactly the dates of the
\* New York subset.
C2_DatesAreNewYorks ==
    Past("merge_ny") =>
        /\ DatesOf(merged_ny_df.rows) = DatesOf(PreMergeNY)
        /\ \A i \in DOMAIN merged_ny_df.rows :
              merged_ny_df.rows[i].submission_date \notin DatesOf(PreMergeNYC)
                  => /\ merged_ny_df.rows[i].tot_cases = NaN
                     /\ merged_ny_df.rows[i].new_case = NaN
                     /\ merged_ny_df.rows[i].tot_death = NaN
                     /\ merged_ny_df.rows[i].new_death = NaN

\* C2 witness: the merge has run with a date only New York has and a date
\* only New York City has.
C2_Witness ==
    /\ Past("merge_ny")
    /\ DatesOf(PreMergeNY) \ DatesOf(PreMergeNYC) # {}
    /\ DatesOf(PreMergeNYC) \ DatesOf(PreMergeNY) # {}

\* C6: no row of the final state_cases_deaths or of its backup file has the
\* jurisdiction New York City (the database table is appended from it).
C6_NoNewYorkCity ==
    /\ Past("merge_ny") =>
          \A i \in DOMAIN state_cases_deaths.rows :
              state_cases_deaths.rows[i].state_name # "New York City"
    /\ \A i \in DOMAIN csv["state_cases_deaths"] :
          csv["state_cases_deaths"][i].state_name # "New York City"

\* C6 witness: the merge has run on an extract with New York City rows, some
\* with a New York row of their date and some without, and the final table
\* has rows.
C6_Witness ==
    /\ Past("merge_ny")
    /\ DatesOf(PreMergeNYC) \cap DatesOf(PreMergeNY) # {}
    /\ DatesOf(PreMergeNYC) \ DatesOf(PreMergeNY) # {}
    /\ state_cases_deaths.rows # <<>>

\* No two rows of `rows` agree on the columns `key`.
Unique(rows, key) ==
    \A i, j \in DOMAIN rows : SameKey(rows[i], rows[j], key) => i = j

\* Each extract has at most one row per key.
UniqueInputs ==
    /\ \A f \in {"nbr_fully", "shr_fully", "nbr_doses", "per_million"} :
          Unique(files[f].rows, {"Entity", "Date"})
    /\ Unique(files.cases_deaths.rows, {"state", "submission_date"})

\* C7 as stated: when each extract has at most one row per key, each of the
\* three output tables has at most one row per (jurisdiction, date), whatever
\* the cross-reference maps.
C7_UniqueKeys ==
    UniqueInputs =>
        /\ Past("split_vaccinations") =>
              /\ Unique(US_vaccinations_df.rows, {"date_administered"})
              /\ Unique(state_vaccinations_df.rows, {"state_name", "date_administered"})
        /\ Past("merge_ny") =>
              Unique(state_cases_deaths.rows, {"state_name", "submission_date"})

\* The national rows with their label put back
Relabel(rows) ==
    [i \in DOMAIN rows |-> rows[i] @@ [state_name |-> "United States"]]

Count(rows, r) == Cardinality({i \in DOMAIN rows : rows[i] = r})

\* C4: the split is a partition of the cleaned table: the national rows carry
\* no state_name column, no state row is national, no row is on both sides,
\* and the national rows relabelled "United States" together with the state
\* rows are exactly the rows of the cleaned table, each as often as there.
C4_Partition ==
    Past("split_vaccinations") =>
        LET V == vaccinations_df.rows
            U == Relabel(US_vaccinations_df.rows)
            S == state_vaccinations_df.rows
        IN  /\ "state_name" \notin Columns(US_vaccinations_df)
            /\ \A i \in DOMAIN US_vaccinations_df.rows :
                  "state_name" \notin DOMAIN US_vaccinations_df.rows[i]
            /\ \A i \in DOMAIN S : S[i].state_name # "United States"
            /\ Range(U) \cap Range(S) = {}
            /\ \A r \in Range(V) \cup Range(U) \cup Range(S) :
                  Count(V, r) = Count(U, r) + Count(S, r)

\* C4 witness: the split has run on a table with national and state rows.
C4_Witness ==
    /\ Past("split_vaccinations")
    /\ US_vaccinations_df.rows # <<>>
    /\ state_vaccinations_df.rows # <<>>

\* The key of a vaccination row, before or after the rename of cell 5
VaccKey(r) ==
    IF "Entity" \in DOMAIN r THEN <<r.Entity, r.Date>>
    ELSE <<r.state_name, r.date_administered>>

KeysInOrder(rows) == [i \in DOMAIN rows |-> VaccKey(rows[i])]

\* C5: no row of a federal-agency jurisdiction is in the cleaned table, in
\* state_vaccinations or in its backup file, and the
\* rows of every other jurisdiction that came out of the join are all kept,
\* in order (us_vaccinations holds the "United States" rows only).
C5_AgenciesExcluded ==
    /\ Past("clean_vaccinations") =>
          /\ \A i \in DOMAIN vaccinations_df.rows :
                VaccKey(vaccinations_df.rows[i])[1] \notin Excluded
          /\ KeysInOrder(vaccinations_df.rows)
                = KeysInOrder(SelectSeq(df3.rows, LAMBDA r : r.Entity \notin Excluded))
    /\ Past("split_vaccinations") =>
          /\ \A i \in DOMAIN state_vaccinations_df.rows :
                state_vaccinations_df.rows[i].state_name \notin Excluded
          /\ Len(US_vaccinations_df.rows) + Len(state_vaccinations_df.rows)
                = Len(SelectSeq(df3.rows, LAMBDA r : r.Entity \notin Excluded))
    /\ \A i \in DOMAIN csv["state_vaccinations"] :
          csv["state_vaccinations"][i].state_name \notin Excluded

\* C5 witness: the filter has run on agency rows and on other rows.
C5_Witness ==
    /\ Past("split_vaccinations")
    /\ \E i \in DOMAIN df3.rows : df3.rows[i].Entity \in Excluded
    /\ \E i \in DOMAIN df3.rows : df3.rows[i].Entity \notin Excluded

KeySet(df) == {VaccKey(df.rows[i]) : i \in DOMAIN df.rows}

OtherKeys ==
    KeySet(files.shr_fully) \cup KeySet(files.nbr_doses) \cup KeySet(files.per_million)

\* C8: the merged table has exactly the keys of the first extract, each at
\* least once, whatever the other three extracts hold; a key that only they
\* hold is in no table.
C8_FirstExtractKept ==
    /\ Past("merge_vaccinations") =>
          /\ KeySet(df3) = KeySet(files.nbr_fully)
          /\ Len(df3.rows) >= Len(files.nbr_fully.rows)
    /\ Past("split_vaccinations") =>
          \A k \in OtherKeys \ KeySet(files.nbr_fully) :
              /\ k \notin KeySet(vaccinations_df)
              /\ k \notin KeySet(state_vaccinations_df)
              /\ k[1] = "United States" =>
                    \A i \in DOMAIN US_vaccinations_df.rows :
                        US_vaccinations_df.rows[i].date_administered # k[2]

\* C8 witness: the joins have run with a key of the first extract that
\* another extract lacks, and with a key that only another extract has.
C8_Witness ==
    /\ Past("split_vaccinations")
    /\ KeySet(files.nbr_fully) \ KeySet(files.shr_fully) # {}
    /\ OtherKeys \ KeySet(files.nbr_fully) # {}

\* C9: after the fill no metric of any row is missing: a metric that was
\* missing after the join holds 0 and the two undaily metrics are otherwise
\* unchanged; in both output tables the two daily columns are integer columns
\* of whole numbers.
C9_FilledAndWhole ==
    /\ Past("clean_vaccinations") =>
          LET pre  == ExcludeAgencies(df3).rows
              post == vaccinations_df.rows
          IN  /\ Len(post) = Len(pre)
              /\ \A i \in DOMAIN post : \A m \in Metrics :
                    /\ post[i][m] # NaN
                    /\ pre[i][m] = NaN => post[i][m] = 0
                    /\ (pre[i][m] # NaN /\ m \in {M1, M2}) => post[i][m] = pre[i][m]
    /\ Past("split_vaccinations") =>
          \A T \in {US_vaccinations_df, state_vaccinations_df} :
              /\ T.dtype[M3] = "int64" /\ T.dtype[M4] = "int64"
              /\ \A i \in DOMAIN T.rows :
                    /\ \A m \in Metrics : T.rows[i][m] # NaN
                    /\ IsIntegral(T.rows[i][M3]) /\ IsIntegral(T.rows[i][M4])

\* C9 witness: the fill has run on a row with a metric missing for want of a
\* match, on a row with a null read from a file and on a decimal daily value,
\* and both output tables have rows.
C9_Witness ==
    /\ Past("split_vaccinations")
    /\ US_vaccinations_df.rows # <<>>
    /\ state_vaccinations_df.rows # <<>>
    /\ \E i \in DOMAIN df3.rows :
          /\ df3.rows[i].Entity \notin Excluded
          /\ df3.rows[i][M1] = NaN
    /\ \E i \in DOMAIN df3.rows :
          /\ df3.rows[i].Entity \notin Excluded
          /\ df3.rows[i][M4] = NaN
          /\ ~ IsIntegral(df3.rows[i][M3])

\* The errors of a primary key: a key that is already there, a null in a key
KeyViolation == {"UniqueViolation", "NotNullViolation"}

RunOver == pc \in {"done", "error"}

NothingToAppend ==
    /\ US_vaccinations_df.rows = <<>>
    /\ state_vaccinations_df.rows = <<>>
    /\ state_cases_deaths.rows = <<>>

VaccinationsLoaded ==
    db_before["us_vaccinations"] # <<>> \/ db_before["state_vaccinations"] # <<>>

ShowCellOf(t) ==
    IF t = "us_vaccinations" THEN "show_us"
    ELSE IF t = "state_vaccinations" THEN "show_state" ELSE "show_cases"

\* C10 as stated: a run that ends has read back, from each of the three
\* tables, a sample of rows and a row count.
C10_SampleAndCountEach ==
    pc = "done" =>
        \A t \in Tables : <<t, "sample">> \in reads /\ <<t, "count">> \in reads

\* C10 amended: the cell after each append reads back a sample of rows from
\* the table just appended to, and a row count is read back from
\* state_cases_deaths alone, before the run ends; every read-back returns
\* what its table holds.
C10_SampleEachCountLast ==
    /\ \A rd \in reads : rd[1] \in appended
    /\ \A t \in Tables :
          /\ (t \in appended /\ Past(ShowCellOf(t))) => <<t, "sample">> \in reads
          /\ <<t, "sample">> \in reads => shown[t] = Head5(db[t])
          /\ <<t, "count">> \in reads => t = "state_cases_deaths"
    /\ <<"state_cases_deaths", "count">> \in reads
          => counted = Len(db["state_cases_deaths"])
    /\ pc = "done" =>
          reads = {<<t, "sample">> : t \in Tables}
                    \cup {<<"state_cases_deaths", "count">>}

\* C10 witness: a run has ended after appending rows to all three tables.
C10_Witness ==
    /\ pc = "done"
    /\ appended = Tables
    /\ \A t \in Tables : shown[t] # <<>>
    /\ counted > 0

\* The record key of each output table: (jurisdiction, date), date,
\* (submission_date, jurisdiction)
RecordKey ==
    [state_vaccinations |-> {"state_name", "date_administered"},
     us_vaccinations    |-> {"date_administered"},
     state_cases_deaths |-> {"submission_date", "state_name"}]

\* C11: the schema definition creates each of the three tables of the
\* database the loader appends to, with a primary key on the table's record
\* key.
C11_SchemaProvisionsThree ==
    \A t \in DOMAIN db :
        /\ t \in DOMAIN CovidDBSchema
        /\ CovidDBSchema[t] = RecordKey[t]

\* The frame the notebook appends to table t
FrameOf(t) ==
    IF t = "us_vaccinations" THEN US_vaccinations_df
    ELSE IF t = "state_vaccinations" THEN state_vaccinations_df
    ELSE state_cases_deaths

\* The appends of a run so far, in the order of the cells
AppendOrder ==
    { {}, {"us_vaccinations"}, {"us_vaccinations", "state_vaccinations"}, Tables }

\* C12: a run changes no table before both flows have ended and the three
\* backup files hold the three final frames; the tables it has appended to
\* are us_vaccinations, then state_vaccinations, then state_cases_deaths;
\* and each of them holds the rows it held when the run began followed by
\* one copy of the frame's rows, every other table being as it was.
C12_LoadLastInOrderOnce ==
    /\ (appended # {} \/ db # db_before) => Past("connect")
    /\ Past("connect") => \A t \in Tables : csv[t] = FrameOf(t).rows
    /\ appended \in AppendOrder
    /\ \A t \in Tables :
          db[t] = IF t \in appended THEN db_before[t] \o FrameOf(t).rows
                  ELSE db_before[t]

\* C12 witness: a first run has ended with rows appended to all three
\* tables, the backups holding the same rows.
C12_Witness ==
    /\ run = 1
    /\ pc = "done"
    /\ appended = Tables
    /\ \A t \in Tables : db[t] # <<>> /\ csv[t] = db[t]

\* The order of the three to_sql cells
LoadOrder == <<"us_vaccinations", "state_vaccinations", "state_cases_deaths">>

\* The table whose append ended the run: the first one not appended to
FailedTable ==
    LoadOrder[CHOOSE i \in DOMAIN LoadOrder :
                 /\ LoadOrder[i] \notin appended
                 /\ \A j \in 1..(i - 1) : LoadOrder[j] \in appended]

\* C13: when the append to state_vaccinations or to state_cases_deaths has
\* failed, the run has ended on a key error, every table appended to before
\* holds the rows it held when the run began followed by its frame's rows,
\* the failing table and the tables after it are as they were when the run
\* began, and no cell after the failing one has run (no read-back of the
\* failing table or of a later one).
C13_EarlierAppendsStay ==
    (pc = "error" /\ appended # {}) =>
        /\ error \in KeyViolation
        /\ FailedTable \in {"state_vaccinations", "state_cases_deaths"}
        /\ \A t \in appended : db[t] = db_before[t] \o FrameOf(t).rows
        /\ \A t \in Tables \ appended : db[t] = db_before[t]
        /\ \A rd \in reads : rd[1] \in appended /\ rd[2] = "sample"

\* C13 witness: in a first run the append to state_vaccinations has failed
\* on a key that occurs twice in the frame, after national rows were
\* appended to us_vaccinations.
C13_Witness ==
    /\ run = 1
    /\ pc = "error"
    /\ error = "UniqueViolation"
    /\ appended = {"us_vaccinations"}
    /\ db["us_vaccinations"] # <<>>
    /\ db["us_vaccinations"] = US_vaccinations_df.rows
    /\ state_vaccinations_df.rows # <<>>
    /\ db["state_vaccinations"] = <<>>

\* The name the cross-reference file gives a raw code, null when it has no
\* row for the code
NameOf(code) ==
    LET x == files.xref.rows
    IN  IF \E i \in DOMAIN x : x[i].state = code
        THEN x[CHOOSE i \in DOMAIN x : x[i].state = code].state_name
        ELSE NaNStr

\* The rows of the case/death extract that are neither New York's nor New
\* York City's
OtherInputRows ==
    SelectSeq(files.cases_deaths.rows,
              LAMBDA r : NameOf(r.state) \notin {"New York", "New York City"})

\* An input row as an output record: its date, its name, its four metrics
AsOutput(r) ==
    [submission_date |-> r.submission_date, state_name |-> NameOf(r.state),
     tot_cases |-> r.tot_cases, new_cases |-> r.new_case,
     tot_deaths |-> r.tot_death, new_deaths |-> r.new_death]

\* C14: every row of the extract whose cross-referenced name is neither
\* "New York" nor "New York City" (a null name included) is in
\* state_cases_deaths exactly once, its date, name and four metrics
\* unchanged, and every row of state_cases_deaths that is not such a row is
\* named "New York".
C14_OthersUnchanged ==
    Past("merge_ny") =>
        LET out == state_cases_deaths.rows
            oth == OtherInputRows
        IN  /\ \A i \in DOMAIN oth : Count(out, AsOutput(oth[i])) = 1
            /\ \A j \in DOMAIN out :
                  \/ out[j].state_name = "New York"
                  \/ \E i \in DOMAIN oth : out[j] = AsOutput(oth[i])
            /\ Len(SelectSeq(out, LAMBDA r : r.state_name # "New York")) = Len(oth)

\* C14 witness: the merge has run on an extract with a row whose code has
\* no cross-reference entry, a row of another state and a New York row.
C14_Witness ==
    /\ Past("merge_ny")
    /\ \E i \in DOMAIN OtherInputRows : NameOf(OtherInputRows[i].state) = NaNStr
    /\ \E i \in DOMAIN OtherInputRows : NameOf(OtherInputRows[i].state) = "Alabama"
    /\ \E j \in DOMAIN state_cases_deaths.rows :
          state_cases_deaths.rows[j].state_name = "New York"
    /\ Len(state_cases_deaths.rows) = MaxCaseRows

\* The read cell that meets the first file that cannot be read
FailingCell ==
    IF ReadsDone(SubSeq(FileNames, 1, 4)) < 4 THEN "read_vaccinations"
    ELSE "read_cases"

\* C15: when one of the six files cannot be read, the run goes no further
\* than the cell that reads it and ends there on the read error, and no
\* table has a row appended in that run (nor, the files being the same, in
\* a run after it).
C15_AbortsBeforeLoad ==
    files.unreadable # {} =>
        /\ pc # "done"
        /\ pc # "error" => Pos(pc) <= Pos(FailingCell)
        /\ pc = "error" => error = "ReadError"
        /\ appended = {}
        /\ db = db_before
        /\ db = NoRows

\* C15 witness: the cross-reference alone cannot be read; the vaccination
\* flow has run and written its backups, the run has ended at cell 7 with
\* the case/death extract read, and the tables are empty.
C15_Witness ==
    /\ files.unreadable = {"xref"}
    /\ pc = "error"
    /\ error = "ReadError"
    /\ csv["us_vaccinations"] # <<>>
    /\ raw_cases_deaths_df.rows # <<>>
    /\ state_cases_deaths = Undefined
    /\ db = NoRows

====
